---- MODULE Spec2Model ----
(***************************************************************************)
(* A model of backend.py (AAMAS): the three CSV tables, the request        *)
(* handlers that write them (upload-students, record-absence, send-alerts) *)
(* and the ones that only read them (report, alerts).                      *)
(*                                                                         *)
(* Representation.                                                         *)
(*   - A CSV table is the sequence of its rows (load_csv order).           *)
(*   - A Students row keeps the columns the handlers read: student_id,     *)
(*     name, course_code, group.  programme, part, phone and email are     *)
(*     carried by the file but never tested by any handler.                *)
(*   - Text fields are strings.  A form field that is not in the request   *)
(*     is None.                                                            *)
(*   - hours and total_hours are text; FloatOf is float() on the texts the *)
(*     model draws.  A percent is kept in hundredths of a percent          *)
(*     (7.5 % is 750), which is what round(x, 2) leaves.                   *)
(*   - count is the integer that the 'count' column holds as decimal text. *)
(*   - last records the most recent request and what the handler answered  *)
(*     (for a send-alerts run: its course and group, its target rows and   *)
(*     what each channel reported per row); recon counts the calls of      *)
(*     upsert_alert per key.  Neither is read by the handlers.             *)
(*                                                                         *)
(* Requests.  Every uploaded data row has the eight columns of its header  *)
(* (a longer row makes save_csv raise half-way; none is drawn).  Requests  *)
(* are served one at a time, each handler running to its end, in Spec and  *)
(* SpecForms.                                                              *)
(***************************************************************************)
EXTENDS Integers, Sequences, FiniteSets, TLC

VARIABLES students, attendance, alerts, last, recon, inflight

vars == <<students, attendance, alerts, last, recon, inflight>>

(***************************************************************************)
(* Bounds of the model.                                                    *)
(***************************************************************************)
MaxEvents == 2

MaxUpserts == 2

(***************************************************************************)
(* Texts and small helpers.                                                *)
(***************************************************************************)
None == "<None>"

StudentIds == {"S1", "S2"}

Courses == {"C1", "C2"}

Groups == {"G1"}

Keys == StudentIds \X Courses \X Groups

Tiers == {7, 10, 15}

\* str.strip() on the texts the forms carry.
Strip(s) ==
    CASE s = " S1 " -> "S1"
      [] s = " "    -> ""
      [] OTHER      -> s

\* request.form.get(field, default)
FormGet(form, field, default) ==
    IF form[field] = None THEN default ELSE form[field]

\* float(text) succeeds
IsNumeric(text) == text \in {"0", "3", "5", "-2", "40", "100", "-5"}

\* float(text), for a text float() accepts
FloatOf(text) ==
    CASE text = "0"   -> 0
      [] text = "3"   -> 3
      [] text = "5"   -> 5
      [] text = "-2"  -> 0 - 2
      [] text = "40"  -> 40
      [] text = "100" -> 100
      [] text = "-5"  -> 0 - 5

\* The quotient n / d (d > 0) rounded to the nearest integer, ties to even:
\* round() of Python 3.
RoundHalfEven(n, d) ==
    LET q == n \div d
        r == n % d
    IN  IF 2 * r < d THEN q
        ELSE IF 2 * r > d THEN q + 1
        ELSE IF q % 2 = 0 THEN q ELSE q + 1

(***************************************************************************)
(* The CSV layer and the aggregation.                                      *)
(***************************************************************************)
Required ==
    <<"student_id", "name", "programme", "part",
      "course_code", "group", "phone", "email">>

\* sum_hours_missed: the sum of hours of the events of one student in one
\* course and group (0.0 when the student has none).
RECURSIVE SumHours(_, _, _, _)
SumHours(att, sid, course_code, group) ==
    IF att = <<>> THEN 0
    ELSE LET a == Head(att)
             rest == SumHours(Tail(att), sid, course_code, group)
         IN  IF a.course_code = course_code /\ a.group = group
                  /\ a.student_id = sid
             THEN FloatOf(a.hours) + rest
             ELSE rest

\* percent = round(hours_missed / total * 100, 2) if total > 0 else 0.0,
\* in hundredths of a percent.
Percent(hours_missed, total) ==
    IF total > 0 THEN RoundHalfEven(hours_missed * 10000, total) ELSE 0

\* percent > t: a percent equal to the tier does not hit it.
Hit_strict(percent, t) == percent > t * 100

\* percent >= t
Hit(percent, t) == percent >= t * 100

\* compute_percentages raises (float(total_hours)) when a student is
\* enrolled and total_hours is not numeric.
ComputeRaises(studs, course_code, group, total_hours) ==
    /\ ~IsNumeric(total_hours)
    /\ \E i \in DOMAIN studs :
          studs[i].course_code = course_code /\ studs[i].group = group

\* compute_percentages with a row only for the enrolled students the
\* attendance log has hours for (the loop run over the sums, not the roster).
ComputePercentages_overLog(studs, att, course_code, group, total_hours) ==
    LET InLog(s) ==
            /\ s.course_code = course_code /\ s.group = group
            /\ \E i \in DOMAIN att :
                  /\ att[i].student_id = s.student_id
                  /\ att[i].course_code = course_code
                  /\ att[i].group = group
        enrolled == SelectSeq(studs, InLog)
    IN  [i \in DOMAIN enrolled |->
            LET s == enrolled[i]
                hours_missed == SumHours(att, s.student_id, course_code, group)
                percent == Percent(hours_missed, FloatOf(total_hours))
            IN  [student_id   |-> s.student_id,
                 name         |-> s.name,
                 hours_missed |-> hours_missed,
                 percent      |-> percent,
                 thresholds   |-> {t \in Tiers : Hit(percent, t)}]]

\* compute_percentages: one row per enrolled Students row, in roster order.
ComputePercentages(studs, att, course_code, group, total_hours) ==
    LET Enrolled(s) == s.course_code = course_code /\ s.group = group
        enrolled == SelectSeq(studs, Enrolled)
    IN  [i \in DOMAIN enrolled |->
            LET s == enrolled[i]
                hours_missed == SumHours(att, s.student_id, course_code, group)
                percent == Percent(hours_missed, FloatOf(total_hours))
            IN  [student_id   |-> s.student_id,
                 name         |-> s.name,
                 hours_missed |-> hours_missed,
                 percent      |-> percent,
                 thresholds   |-> {t \in Tiers : Hit(percent, t)}]]

\* The search that never finds the key, so that upsert_alert always appends.
FindAlert_noMatch(al, student_id, course_code, group) == 0

\* The index of the first AlertState row of a key, 0 when there is none.
FindAlert(al, student_id, course_code, group) ==
    LET hits == {i \in DOMAIN al :
                    /\ al[i].student_id = student_id
                    /\ al[i].course_code = course_code
                    /\ al[i].group = group}
    IN  IF hits = {} THEN 0
        ELSE CHOOSE i \in hits : \A j \in hits : i <= j

\* upsert_alert with the flags of a found row overwritten by the current
\* hits instead of only raised.
UpsertAlert_overwriteFlags(al, student_id, name, course_code, group, percent, hit7, hit10, hit15) ==
    LET i == FindAlert(al, student_id, course_code, group)
        Yes(hit) == IF hit THEN "yes" ELSE ""
    IN  IF i # 0
        THEN [al EXCEPT
                ![i].percent = percent,
                ![i].count   = al[i].count + 1,
                ![i].sent7   = Yes(hit7),
                ![i].sent10  = Yes(hit10),
                ![i].sent15  = Yes(hit15)]
        ELSE Append(al,
                [student_id |-> student_id, name |-> name,
                 course_code |-> course_code, group |-> group,
                 percent |-> percent, count |-> 1,
                 sent7 |-> Yes(hit7), sent10 |-> Yes(hit10),
                 sent15 |-> Yes(hit15)])

\* upsert_alert with count raised only when a flag is newly set.
UpsertAlert_countOnNewTier(al, student_id, name, course_code, group, percent, hit7, hit10, hit15) ==
    LET i == FindAlert(al, student_id, course_code, group)
        Yes(hit) == IF hit THEN "yes" ELSE ""
    IN  IF i # 0
        THEN LET crossed == \/ hit7  /\ al[i].sent7  # "yes"
                            \/ hit10 /\ al[i].sent10 # "yes"
                            \/ hit15 /\ al[i].sent15 # "yes"
             IN  [al EXCEPT
                    ![i].percent = percent,
                    ![i].count   = al[i].count + (IF crossed THEN 1 ELSE 0),
                    ![i].sent7   = IF hit7  THEN "yes" ELSE al[i].sent7,
                    ![i].sent10  = IF hit10 THEN "yes" ELSE al[i].sent10,
                    ![i].sent15  = IF hit15 THEN "yes" ELSE al[i].sent15]
        ELSE Append(al,
                [student_id |-> student_id, name |-> name,
                 course_code |-> course_code, group |-> group,
                 percent |-> percent, count |-> 1,
                 sent7 |-> Yes(hit7), sent10 |-> Yes(hit10),
                 sent15 |-> Yes(hit15)])

\* upsert_alert appending the new row with count '0'.
UpsertAlert_countFromZero(al, student_id, name, course_code, group, percent, hit7, hit10, hit15) ==
    LET i == FindAlert(al, student_id, course_code, group)
    IN  IF i # 0
        THEN [al EXCEPT
                ![i].percent = percent,
                ![i].count   = al[i].count + 1,
                ![i].sent7   = IF hit7  THEN "yes" ELSE al[i].sent7,
                ![i].sent10  = IF hit10 THEN "yes" ELSE al[i].sent10,
                ![i].sent15  = IF hit15 THEN "yes" ELSE al[i].sent15]
        ELSE Append(al,
                [student_id  |-> student_id,
                 name        |-> name,
                 course_code |-> course_code,
                 group       |-> group,
                 percent     |-> percent,
                 count       |-> 0,
                 sent7       |-> IF hit7  THEN "yes" ELSE "",
                 sent10      |-> IF hit10 THEN "yes" ELSE "",
                 sent15      |-> IF hit15 THEN "yes" ELSE ""])

\* upsert_alert: load the table, update the first row of the key or append
\* a new one, save the table.
UpsertAlert(al, student_id, name, course_code, group, percent, hit7, hit10, hit15) ==
    LET i == FindAlert(al, student_id, course_code, group)
    IN  IF i # 0
        THEN [al EXCEPT
                ![i].percent = percent,
                ![i].count   = al[i].count + 1,
                ![i].sent7   = IF hit7  THEN "yes" ELSE al[i].sent7,
                ![i].sent10  = IF hit10 THEN "yes" ELSE al[i].sent10,
                ![i].sent15  = IF hit15 THEN "yes" ELSE al[i].sent15]
        ELSE Append(al,
                [student_id  |-> student_id,
                 name        |-> name,
                 course_code |-> course_code,
                 group       |-> group,
                 percent     |-> percent,
                 count       |-> 1,
                 sent7       |-> IF hit7  THEN "yes" ELSE "",
                 sent10      |-> IF hit10 THEN "yes" ELSE "",
                 sent15      |-> IF hit15 THEN "yes" ELSE ""])

\* send_sms_stub: prints the text and reports success.
SendSmsStub == TRUE

\* The guard with 'and' for 'or'.
Processed_bothChannels(ok_email, ok_sms) == ok_email /\ ok_sms

\* The test that guards upsert_alert in send_alerts.
Processed(ok_email, ok_sms) == ok_email \/ ok_sms

\* The loop with hit10 computed against the 7 % tier.
RECURSIVE SendLoop_hit10At7(_, _, _, _, _)
SendLoop_hit10At7(al, target, ok_emails, course_code, group) ==
    IF target = <<>> THEN al
    ELSE LET r == Head(target)
             percent == r.percent
             al2 == IF Processed(Head(ok_emails), SendSmsStub)
                    THEN UpsertAlert(al, r.student_id, r.name, course_code,
                                     group, percent, Hit(percent, 7),
                                     Hit(percent, 7), Hit(percent, 15))
                    ELSE al
         IN  SendLoop_hit10At7(al2, Tail(target), Tail(ok_emails),
                               course_code, group)

\* The loop with hit7 computed against the 15 % tier.
RECURSIVE SendLoop_hit7At15(_, _, _, _, _)
SendLoop_hit7At15(al, target, ok_emails, course_code, group) ==
    IF target = <<>> THEN al
    ELSE LET r == Head(target)
             percent == r.percent
             al2 == IF Processed(Head(ok_emails), SendSmsStub)
                    THEN UpsertAlert(al, r.student_id, r.name, course_code,
                                     group, percent, Hit(percent, 15),
                                     Hit(percent, 10), Hit(percent, 15))
                    ELSE al
         IN  SendLoop_hit7At15(al2, Tail(target), Tail(ok_emails),
                               course_code, group)

\* The loop of send_alerts over target; ok_emails[i] is what send_email
\* reports for the i-th target row.
RECURSIVE SendLoop(_, _, _, _, _)
SendLoop(al, target, ok_emails, course_code, group) ==
    IF target = <<>> THEN al
    ELSE LET r == Head(target)
             percent == r.percent
             hit7  == Hit(percent, 7)
             hit10 == Hit(percent, 10)
             hit15 == Hit(percent, 15)
             ok_email == Head(ok_emails)
             ok_sms == SendSmsStub
             al2 == IF Processed(ok_email, ok_sms)
                    THEN UpsertAlert(al, r.student_id, r.name, course_code,
                                     group, percent, hit7, hit10, hit15)
                    ELSE al
         IN  SendLoop(al2, Tail(target), Tail(ok_emails), course_code, group)

\* The loop run over every computed row, selected or not.
Target_ignoreSelected(computed, selected) == computed

\* The rows of computed whose student_id is in selected, in order.
Target(computed, selected) ==
    LET InSelected(r) == r.student_id \in selected
    IN  SelectSeq(computed, InSelected)

\* sent_count after the loop of send_alerts.
RECURSIVE SentCount(_)
SentCount(ok_emails) ==
    IF ok_emails = <<>> THEN 0
    ELSE (IF Processed(Head(ok_emails), SendSmsStub) THEN 1 ELSE 0)
         + SentCount(Tail(ok_emails))

\* The number of calls of upsert_alert the loop makes for student_id.
RECURSIVE UpsertCalls(_, _, _)
UpsertCalls(target, ok_emails, student_id) ==
    IF target = <<>> THEN 0
    ELSE (IF Head(target).student_id = student_id
             /\ Processed(Head(ok_emails), SendSmsStub)
          THEN 1 ELSE 0)
         + UpsertCalls(Tail(target), Tail(ok_emails), student_id)

(***************************************************************************)
(* The requests the model draws.                                           *)
(***************************************************************************)
Student(sid, name, course_code) ==
    [student_id |-> sid, name |-> name, course_code |-> course_code,
     group |-> "G1"]

RosterA == <<Student("S1", "N1", "C1"), Student("S2", "N2", "C1")>>

RosterDup == <<Student("S1", "N1", "C1"), Student("S1", "N1", "C1")>>

RosterB == <<Student("S1", "N1", "C2"), Student("S2", "N2", "C1")>>

Rosters == {RosterA, RosterDup, RosterB}

\* The header without 'part', and the header with two columns swapped.
HeaderNoPart ==
    <<"student_id", "name", "programme",
      "course_code", "group", "phone", "email">>

HeaderSwapped ==
    <<"name", "student_id", "programme", "part",
      "course_code", "group", "phone", "email">>

Headers == {Required, HeaderNoPart, HeaderSwapped}

UploadFile(present, decodable, header, rows) ==
    [present |-> present, decodable |-> decodable,
     header |-> header, rows |-> rows]

\* The uploads: each roster under the right header, two rosters under a
\* wrong one, a request without a file, and a file that is not UTF-8.
UploadFiles ==
    {UploadFile(TRUE, TRUE, Required, r) : r \in Rosters}
    \cup {UploadFile(TRUE, TRUE, HeaderNoPart, RosterB),
          UploadFile(TRUE, TRUE, HeaderSwapped, RosterDup),
          UploadFile(FALSE, TRUE, Required, RosterA),
          UploadFile(TRUE, FALSE, Required, RosterA)}

FormFields ==
    {"student_id", "course_code", "group", "week", "class_label",
     "hours", "date"}

AbsenceForm(sid, course_code, hours) ==
    [student_id |-> sid, course_code |-> course_code, group |-> "G1",
     week |-> "W1", class_label |-> "L1", hours |-> hours, date |-> "D1"]

\* The forms of the specification Spec: complete forms, one of them for a
\* student_id no roster has.
AbsenceForms ==
    {AbsenceForm("S1", "C1", "3"), AbsenceForm("S1", "C2", "5"),
     AbsenceForm("S9", "C1", "3")}

\* The forms of the specification SpecForms: the above, other hours, a
\* form for the other student, a student_id in blanks, hours that are no
\* number, negative hours, and a form with one field empty, blank or not
\* sent.
AllAbsenceForms ==
    AbsenceForms
    \cup {AbsenceForm("S1", "C1", "5"), AbsenceForm("S2", "C1", "5"),
          AbsenceForm(" S1 ", "C1", "3"), AbsenceForm("S1", "C1", "abc"),
          AbsenceForm("S1", "C1", "-2")}
    \cup {[AbsenceForm("S1", "C1", "3") EXCEPT ![f] = v] :
             f \in FormFields, v \in {"", " ", None}}

TotalHoursTexts == {"40", "0"}

(***************************************************************************)
(* The state after the module is loaded: the three files hold a header     *)
(* and no row.                                                             *)
(***************************************************************************)
NoOut == [computed |-> FALSE, rows |-> <<>>, ok_emails |-> <<>>,
          ok_smss |-> <<>>, sent_count |-> 0]

\* The send-alerts invocations that can run step by step.
Procs == {1, 2}

\* An invocation that has not begun: pc is its position, target, ok_emails
\* and pos the rows, the email outcomes and the index of its loop, rows the
\* table upsert_alert holds in memory, before the table at its start.
Idle ==
    [pc |-> "idle", course_code |-> "", group |-> "", target |-> <<>>,
     ok_emails |-> <<>>, pos |-> 0, rows |-> <<>>, before |-> <<>>]

Init ==
    /\ students = <<>>
    /\ attendance = <<>>
    /\ alerts = <<>>
    /\ last = [op |-> "start", req |-> [none |-> TRUE], msg |-> "",
               out |-> NoOut]
    /\ recon = [k \in Keys |-> 0]
    /\ inflight = [p \in Procs |-> Idle]

(***************************************************************************)
(* POST /upload-students                                                   *)
(***************************************************************************)
\* The header test on the set of names, whatever their order.
HeaderOk_anyOrder(fieldnames) ==
    {fieldnames[i] : i \in DOMAIN fieldnames}
        = {Required[i] : i \in DOMAIN Required}

\* reader.fieldnames != required is false
HeaderOk(fieldnames) == fieldnames = Required

UploadMsg(file) ==
    IF ~file.present THEN "No file selected"
    ELSE IF ~file.decodable THEN "Upload failed"
    ELSE IF ~HeaderOk(file.header) THEN "Invalid header"
    ELSE "Students uploaded successfully"

UploadStudents ==
    \E file \in UploadFiles :
        /\ students' = IF UploadMsg(file) = "Students uploaded successfully"
                       THEN file.rows ELSE students
        /\ last' = [op |-> "upload", req |-> file, msg |-> UploadMsg(file),
                    out |-> NoOut]
        /\ UNCHANGED <<attendance, alerts, recon, inflight>>

(***************************************************************************)
(* POST /record-absence                                                    *)
(***************************************************************************)
\* The row record_absence builds from the form, name not yet resolved.
AbsenceData(form) ==
    [student_id  |-> Strip(FormGet(form, "student_id", "")),
     name        |-> "",
     course_code |-> Strip(FormGet(form, "course_code", "")),
     group       |-> Strip(FormGet(form, "group", "")),
     week        |-> Strip(FormGet(form, "week", "")),
     class_label |-> Strip(FormGet(form, "class_label", "")),
     hours       |-> Strip(FormGet(form, "hours", "0")),
     date        |-> Strip(FormGet(form, "date", ""))]

\* The index of the first Students row with this student_id, 0 when none.
MatchStudent(studs, student_id) ==
    LET hits == {i \in DOMAIN studs : studs[i].student_id = student_id}
    IN  IF hits = {} THEN 0
        ELSE CHOOSE i \in hits : \A j \in hits : i <= j

\* data['name']: '' until a Students row matches, then that row's name.
ResolveName(studs, student_id) ==
    LET m == MatchStudent(studs, student_id)
    IN  IF m = 0 THEN "" ELSE studs[m].name

\* The answer without the test for a matching Students row.
AbsenceMsg_noLookup(studs, form) ==
    IF ~IsNumeric(AbsenceData(form).hours) THEN "Hours must be numeric"
    ELSE "Absence recorded"

AbsenceMsg(studs, form) ==
    LET data == AbsenceData(form)
    IN  IF MatchStudent(studs, data.student_id) = 0 THEN "Student not found"
        ELSE IF ~IsNumeric(data.hours) THEN "Hours must be numeric"
        ELSE "Absence recorded"

\* append_csv with the file opened for writing, not for appending.
AppendCsv_rewrite(rows, row) == <<row>>

\* append_csv: the table with the row written after its last row.
AppendCsv(rows, row) == Append(rows, row)

RecordAbsenceFrom(forms) ==
    \E form \in forms :
        LET data == AbsenceData(form)
            msg == AbsenceMsg(students, form)
        IN  /\ msg = "Absence recorded" => Len(attendance) < MaxEvents
            /\ attendance' =
                 IF msg = "Absence recorded"
                 THEN AppendCsv(attendance,
                        [data EXCEPT !.name =
                            ResolveName(students, data.student_id)])
                 ELSE attendance
            /\ last' = [op |-> "record", req |-> form, msg |-> msg,
                        out |-> NoOut]
            /\ UNCHANGED <<students, alerts, recon, inflight>>

RecordAbsence == RecordAbsenceFrom(AbsenceForms)

RecordAbsenceAny == RecordAbsenceFrom(AllAbsenceForms)

(***************************************************************************)
(* GET /report and GET /alerts                                             *)
(***************************************************************************)
\* 'if course_code and group and total_hours'
Truthy(text) == text # None /\ text # ""

\* The rows of the alerts page: the computed rows at 7 % or more, each
\* with the flags and the count of its key (load_alerts_map keeps the last
\* row of a key).
AlertRows(computed, al, course_code, group) ==
    LET AtSeven(r) == r.percent >= 700
        shown == SelectSeq(computed, AtSeven)
        LastOf(sid) ==
            LET hits == {i \in DOMAIN al :
                            /\ al[i].student_id = sid
                            /\ al[i].course_code = course_code
                            /\ al[i].group = group}
            IN  IF hits = {} THEN 0
                ELSE CHOOSE i \in hits : \A j \in hits : i >= j
    IN  [i \in DOMAIN shown |->
            LET r == shown[i]
                k == LastOf(r.student_id)
            IN  [student_id |-> r.student_id,
                 percent    |-> r.percent,
                 sent7      |-> IF k = 0 THEN "" ELSE al[k].sent7,
                 sent10     |-> IF k = 0 THEN "" ELSE al[k].sent10,
                 sent15     |-> IF k = 0 THEN "" ELSE al[k].sent15,
                 count      |-> IF k = 0 THEN 0 ELSE al[k].count]]

ReadRequests ==
    {[course_code |-> "C1", group |-> "G1", total_hours |-> t] :
        t \in {"40", "abc", ""}}

Report ==
    \E req \in ReadRequests :
        LET asked == Truthy(req.course_code) /\ Truthy(req.group)
                     /\ Truthy(req.total_hours)
            raises == asked /\ ComputeRaises(students, req.course_code,
                                             req.group, req.total_hours)
        IN  /\ last' =
                 [op |-> "report", req |-> req,
                  msg |-> IF raises THEN "500" ELSE "",
                  out |-> IF asked /\ ~raises
                          THEN [NoOut EXCEPT
                                  !.computed = TRUE,
                                  !.rows = ComputePercentages(
                                      students, attendance, req.course_code,
                                      req.group, req.total_hours)]
                          ELSE NoOut]
            /\ UNCHANGED <<students, attendance, alerts, recon, inflight>>

Alerts ==
    \E req \in ReadRequests :
        LET asked == Truthy(req.course_code) /\ Truthy(req.group)
                     /\ Truthy(req.total_hours)
            raises == asked /\ ComputeRaises(students, req.course_code,
                                             req.group, req.total_hours)
        IN  /\ last' =
                 [op |-> "alerts", req |-> req,
                  msg |-> IF raises THEN "500" ELSE "",
                  out |-> IF asked /\ ~raises
                          THEN [NoOut EXCEPT
                                  !.computed = TRUE,
                                  !.rows = AlertRows(
                                      ComputePercentages(
                                          students, attendance,
                                          req.course_code, req.group,
                                          req.total_hours),
                                      alerts, req.course_code, req.group)]
                          ELSE NoOut]
            /\ UNCHANGED <<students, attendance, alerts, recon, inflight>>

(***************************************************************************)
(* POST /send-alerts                                                       *)
(***************************************************************************)
SendRequests ==
    {[course_code |-> c, group |-> g, total_hours |-> t, selected |-> sel] :
        c \in Courses, g \in Groups, t \in TotalHoursTexts,
        sel \in SUBSET StudentIds}
    \cup {[course_code |-> "C1", group |-> "G1", total_hours |-> "abc",
           selected |-> {"S1"}]}

\* What last keeps of a send-alerts request: the course, the group and the
\* selected ids that are enrolled there (the other selected ids match no
\* computed row).
SendKey(req, studs) ==
    [course_code |-> req.course_code,
     group       |-> req.group,
     selected    |-> {s \in req.selected :
                        \E i \in DOMAIN studs :
                           /\ studs[i].student_id = s
                           /\ studs[i].course_code = req.course_code
                           /\ studs[i].group = req.group}]

\* The number of calls of upsert_alert so far.
RECURSIVE SumOver(_, _)
SumOver(f, S) ==
    IF S = {} THEN 0
    ELSE LET k == CHOOSE x \in S : TRUE
         IN  f[k] + SumOver(f, S \ {k})

Upserts(rc) == SumOver(rc, Keys)

SendAlerts ==
    \E req \in SendRequests :
        IF ComputeRaises(students, req.course_code, req.group,
                         req.total_hours)
        THEN /\ last' = [op |-> "send", req |-> SendKey(req, students), msg |-> "500",
                         out |-> NoOut]
             /\ UNCHANGED <<students, attendance, alerts, recon, inflight>>
        ELSE LET computed == ComputePercentages(
                                 students, attendance, req.course_code,
                                 req.group, req.total_hours)
                 target == Target(computed, req.selected)
             IN  \E ok_emails \in [DOMAIN target -> BOOLEAN] :
                    LET al2 == SendLoop(alerts, target, ok_emails,
                                        req.course_code, req.group)
                        rc2 == [k \in Keys |->
                                  IF k[2] = req.course_code
                                     /\ k[3] = req.group
                                  THEN recon[k]
                                       + UpsertCalls(target, ok_emails, k[1])
                                  ELSE recon[k]]
                    IN  /\ Upserts(rc2) <= MaxUpserts
                        /\ alerts' = al2
                        /\ recon' = rc2
                        /\ last' =
                             [op |-> "send", req |-> SendKey(req, students),
                              msg |-> "processed",
                              out |-> [NoOut EXCEPT
                                         !.rows = target,
                                         !.ok_emails = ok_emails,
                                         !.ok_smss =
                                            [i \in DOMAIN target |->
                                                SendSmsStub],
                                         !.sent_count = SentCount(ok_emails)]]
                        /\ UNCHANGED <<students, attendance, inflight>>

Next ==
    \/ UploadStudents
    \/ RecordAbsence
    \/ Report
    \/ Alerts
    \/ SendAlerts

Spec == Init /\ [][Next]_vars

\* The roster upload and the absence form alone, with every form.
NextForms ==
    \/ UploadStudents
    \/ RecordAbsenceAny

SpecForms == Init /\ [][NextForms]_vars

(***************************************************************************)
(* POST /send-alerts step by step.  An invocation computes its target      *)
(* (Begin), then for each target row notifies and, when a channel          *)
(* succeeded, calls upsert_alert: the table is loaded (LoadAlerts) and     *)
(* the changed table is written back, either in one step (SaveAlerts) or   *)
(* as save_csv does it, the file truncated by open(path, 'w') (Truncate)   *)
(* and the rows written and flushed afterwards (WriteRows).                *)
(***************************************************************************)
\* The event an accepted absence form appends (every roster names S1 N1).
EventOf(form) ==
    [AbsenceData(form) EXCEPT
        !.name = ResolveName(RosterA, AbsenceData(form).student_id)]

\* The logs that record-absence builds from the accepted forms.
Logs ==
    LET events == {EventOf(form) : form \in
                     {f \in AbsenceForms :
                         AbsenceMsg(RosterA, f) = "Absence recorded"}}
    IN  UNION {[1..n -> events] : n \in 0..MaxEvents}

\* A roster uploaded and absences recorded, no send-alerts run yet.
InitSteps ==
    /\ students \in Rosters
    /\ attendance \in Logs
    /\ alerts = <<>>
    /\ last = [op |-> "start", req |-> [none |-> TRUE], msg |-> "",
               out |-> NoOut]
    /\ recon = [k \in Keys |-> 0]
    /\ inflight = [p \in Procs |-> Idle]

\* The loop is at target[pos], or past the end of target.
PcAt(target, pos) == IF pos > Len(target) THEN "done" ELSE "loop"

\* The calls of upsert_alert an invocation has still to enter.
Planned(f) ==
    CASE f.pc = "loop" ->
            SentCount(SubSeq(f.ok_emails, f.pos, Len(f.ok_emails)))
      [] f.pc \in {"loaded", "truncated"} ->
            SentCount(SubSeq(f.ok_emails, f.pos + 1, Len(f.ok_emails)))
      [] OTHER -> 0

\* The key upsert_alert is called with for the current target row.
CallKey(f) == <<f.target[f.pos].student_id, f.course_code, f.group>>

\* The table upsert_alert hands to save_csv: the loaded table with the
\* current target row reconciled.
Upserted(f) ==
    SendLoop(f.rows, <<f.target[f.pos]>>, <<f.ok_emails[f.pos]>>,
             f.course_code, f.group)

\* The request is read and computed = compute_percentages(...), target =
\* [...] are evaluated.
Begin(p) ==
    /\ inflight[p].pc = "idle"
    /\ \E req \in SendRequests :
          IF ComputeRaises(students, req.course_code, req.group,
                           req.total_hours)
          THEN inflight' =
                 [inflight EXCEPT ![p] =
                    [Idle EXCEPT !.pc = "done",
                                 !.course_code = req.course_code,
                                 !.group = req.group,
                                 !.before = alerts]]
          ELSE LET computed == ComputePercentages(
                                   students, attendance, req.course_code,
                                   req.group, req.total_hours)
                   target == Target(computed, req.selected)
               IN  \E ok_emails \in [DOMAIN target -> BOOLEAN] :
                      /\ Upserts(recon) + Planned(inflight[1])
                            + Planned(inflight[2]) + SentCount(ok_emails)
                               <= MaxUpserts
                      /\ inflight' =
                            [inflight EXCEPT ![p] =
                               [pc          |-> PcAt(target, 1),
                                course_code |-> req.course_code,
                                group       |-> req.group,
                                target      |-> target,
                                ok_emails   |-> ok_emails,
                                pos         |-> 1,
                                rows        |-> <<>>,
                                before      |-> alerts]]
    /\ UNCHANGED <<students, attendance, alerts, last, recon>>

\* The current row is notified; when a channel succeeded upsert_alert is
\* entered (one more call for the key) and loads the table, otherwise the
\* loop moves on.
LoadAlerts(p) ==
    LET f == inflight[p]
    IN  /\ f.pc = "loop"
        /\ inflight' =
              [inflight EXCEPT ![p] =
                 IF Processed(f.ok_emails[f.pos], SendSmsStub)
                 THEN [f EXCEPT !.pc = "loaded", !.rows = alerts]
                 ELSE [f EXCEPT !.pos = f.pos + 1,
                                !.pc = PcAt(f.target, f.pos + 1)]]
        /\ recon' = IF Processed(f.ok_emails[f.pos], SendSmsStub)
                    THEN [recon EXCEPT ![CallKey(f)] = @ + 1]
                    ELSE recon
        /\ UNCHANGED <<students, attendance, alerts, last>>

\* upsert_alert changes its loaded table and save_csv replaces the file.
SaveAlerts(p) ==
    LET f == inflight[p]
    IN  /\ f.pc = "loaded"
        /\ alerts' = Upserted(f)
        /\ inflight' =
              [inflight EXCEPT ![p] =
                 [f EXCEPT !.pos = f.pos + 1,
                           !.pc = PcAt(f.target, f.pos + 1),
                           !.rows = <<>>]]
        /\ UNCHANGED <<students, attendance, last, recon>>

\* upsert_alert changes its loaded table and save_csv opens the file with
\* mode 'w': the file is empty, the rows are in memory.
Truncate(p) ==
    LET f == inflight[p]
    IN  /\ f.pc = "loaded"
        /\ alerts' = <<>>
        /\ inflight' =
              [inflight EXCEPT ![p] =
                 [f EXCEPT !.pc = "truncated", !.rows = Upserted(f)]]
        /\ UNCHANGED <<students, attendance, last, recon>>

\* save_csv writes the header and the rows and closes the file.
WriteRows(p) ==
    LET f == inflight[p]
    IN  /\ f.pc = "truncated"
        /\ alerts' = f.rows
        /\ inflight' =
              [inflight EXCEPT ![p] =
                 [f EXCEPT !.pos = f.pos + 1,
                           !.pc = PcAt(f.target, f.pos + 1),
                           !.rows = <<>>]]
        /\ UNCHANGED <<students, attendance, last, recon>>

\* The process dies.  Inside save_csv the file keeps what had been flushed:
\* none, some or all of the rows, in order.
Crash(p) ==
    LET f == inflight[p]
    IN  /\ f.pc \in {"loop", "loaded", "truncated"}
        /\ alerts' \in IF f.pc = "truncated"
                       THEN {SubSeq(f.rows, 1, n) : n \in 0..Len(f.rows)}
                       ELSE {alerts}
        /\ inflight' = [inflight EXCEPT ![p] = [f EXCEPT !.pc = "crashed"]]
        /\ UNCHANGED <<students, attendance, last, recon>>

\* The server is ready for the next send-alerts request.
Restart(p) ==
    /\ inflight[p].pc \in {"done", "crashed"}
    /\ inflight' = [inflight EXCEPT ![p] = Idle]
    /\ UNCHANGED <<students, attendance, alerts, last, recon>>

\* Two invocations, each run once, interleaved at the load and the save of
\* upsert_alert.
NextConc ==
    \/ \E p \in Procs : Begin(p)
    \/ \E p \in Procs : LoadAlerts(p)
    \/ \E p \in Procs : SaveAlerts(p)

SpecConc == InitSteps /\ [][NextConc]_vars

\* One invocation at a time, with the two steps of save_csv, that can die
\* at any step and be followed by another.
NextCrash ==
    \/ Begin(1)
    \/ LoadAlerts(1)
    \/ Truncate(1)
    \/ WriteRows(1)
    \/ Crash(1)
    \/ Restart(1)

SpecCrash == InitSteps /\ [][NextCrash]_vars

(***************************************************************************)
(* Vocabulary of the properties.                                           *)
(***************************************************************************)
KeyOf(row) == <<row.student_id, row.course_code, row.group>>

HasAlert(al, k) == \E i \in DOMAIN al : KeyOf(al[i]) = k

\* The first row of key k (k has one).
AlertOf(al, k) ==
    al[CHOOSE i \in DOMAIN al :
          /\ KeyOf(al[i]) = k
          /\ \A j \in DOMAIN al : KeyOf(al[j]) = k => i <= j]

CountOf(al, k) == IF HasAlert(al, k) THEN AlertOf(al, k).count ELSE 0

Flag(row, t) ==
    CASE t = 7  -> row.sent7
      [] t = 10 -> row.sent10
      [] t = 15 -> row.sent15

FlagSet(al, k, t) ==
    \E i \in DOMAIN al : KeyOf(al[i]) = k /\ Flag(al[i], t) = "yes"

\* The step is a send-alerts run that went through its loop; run describes
\* it (the value of last after the step).
IsSendRun(run) == run.op = "send" /\ run.msg = "processed"

\* The key a target row of a run stands for.
RunKey(run, i) ==
    <<run.out.rows[i].student_id, run.req.course_code, run.req.group>>

\* A channel reported success for the i-th target row of the run.
Delivered(run, i) == run.out.ok_emails[i] \/ run.out.ok_smss[i]

(***************************************************************************)
(* C1.  A send-alerts run sends no email and no SMS to a selected student  *)
(* who hits a tier and whose key already has a row, from an earlier run,   *)
(* in which the flag of every tier the student hits now is set.            *)
(***************************************************************************)
C1_NoRepeatedNotification ==
    [][IsSendRun(last') =>
          \A i \in DOMAIN last'.out.rows :
             LET k == RunKey(last', i)
                 percent == last'.out.rows[i].percent
             IN  (/\ HasAlert(alerts, k)
                  /\ percent >= 700
                  /\ \A t \in Tiers :
                        percent >= t * 100
                           => Flag(AlertOf(alerts, k), t) = "yes")
                    => ~Delivered(last', i)]_vars

(***************************************************************************)
(* C2.  A flag that is set for a key stays set over every step: upload,    *)
(* absence, report, alerts page and send-alerts run, whatever the percent  *)
(* of the run.                                                             *)
(***************************************************************************)
C2_FlagsNeverCleared ==
    [][\A k \in Keys : \A t \in Tiers :
          FlagSet(alerts, k, t) => FlagSet(alerts', k, t)]_vars

\* A row reconciled twice whose 15 % flag is set although the percent of
\* its last run is below 7.
C2_Witness ==
    \E i \in DOMAIN alerts :
        /\ alerts[i].sent15 = "yes"
        /\ alerts[i].sent7 = "yes"
        /\ alerts[i].count = 2
        /\ alerts[i].percent < 700

(***************************************************************************)
(* C3.  A row is created for a key only by a run that computed a percent   *)
(* of at least 7 for it, so a key whose percent was below 7 in every run   *)
(* has no row.                                                             *)
(***************************************************************************)
C3_NoRowBelowSeven ==
    [][\A k \in Keys :
          (~HasAlert(alerts, k) /\ HasAlert(alerts', k))
             => /\ IsSendRun(last')
                /\ \E i \in DOMAIN last'.out.rows :
                      /\ RunKey(last', i) = k
                      /\ last'.out.rows[i].percent >= 700]_vars

(***************************************************************************)
(* C4.  In a send-alerts run, a student with a target row for which a      *)
(* channel reported success has the row of the key reconciled (it exists,  *)
(* its count has grown, it holds the percent of the run) and sent_count    *)
(* counts exactly the target rows with a success; a student without such a *)
(* target row has the row of the key as it was, or none as before.         *)
(***************************************************************************)
C4_PartialFailure ==
    [][IsSendRun(last') =>
          LET run == last'
              rows == run.out.rows
          IN  /\ run.out.sent_count
                    = Cardinality({i \in DOMAIN rows : Delivered(run, i)})
              /\ \A s \in StudentIds :
                    LET k == <<s, run.req.course_code, run.req.group>>
                        ok == {i \in DOMAIN rows :
                                  rows[i].student_id = s /\ Delivered(run, i)}
                    IN  IF ok = {}
                        THEN /\ HasAlert(alerts', k) <=> HasAlert(alerts, k)
                             /\ HasAlert(alerts, k)
                                   => AlertOf(alerts', k) = AlertOf(alerts, k)
                        ELSE /\ HasAlert(alerts', k)
                             /\ CountOf(alerts', k) > CountOf(alerts, k)
                             /\ \E i \in ok :
                                   AlertOf(alerts', k).percent
                                      = rows[i].percent]_vars

\* A run in which the email of a target row failed, the SMS succeeded, and
\* the row of the key was reconciled for the second time.
C4_Witness ==
    /\ IsSendRun(last)
    /\ \E i \in DOMAIN last.out.rows :
          /\ ~last.out.ok_emails[i]
          /\ last.out.ok_smss[i]
          /\ CountOf(alerts, RunKey(last, i)) = 2
    /\ last.out.sent_count = 1

(***************************************************************************)
(* C5.  The count of a key is the number of calls of upsert_alert made for *)
(* it: no row before the first call, 1 after it, one more per later call.  *)
(***************************************************************************)
C5_CountIsReconciliations ==
    \A k \in Keys :
        /\ recon[k] = 0 => ~HasAlert(alerts, k)
        /\ recon[k] > 0 => HasAlert(alerts, k) /\ CountOf(alerts, k) = recon[k]

\* A key reconciled twice, the second time at a percent below 7 (no tier
\* newly crossed) after a time at 10 % or more.
C5_Witness ==
    \E k \in Keys :
        /\ recon[k] = 2
        /\ CountOf(alerts, k) = 2
        /\ AlertOf(alerts, k).sent10 = "yes"
        /\ AlertOf(alerts, k).percent < 700

(***************************************************************************)
(* C6.  In one send-alerts run the count of every key grows by at most 1   *)
(* and every student has at most one target row (one email, one SMS).      *)
(***************************************************************************)
C6_OncePerInvocation ==
    [][IsSendRun(last') =>
          \A s \in StudentIds :
             LET k == <<s, last'.req.course_code, last'.req.group>>
             IN  /\ CountOf(alerts', k) <= CountOf(alerts, k) + 1
                 /\ Cardinality({i \in DOMAIN last'.out.rows :
                                   last'.out.rows[i].student_id = s}) <= 1]_vars

(***************************************************************************)
(* C7.  A flag of tier N becomes set for a key only in a send-alerts run   *)
(* for the key's course and group that computed a percent of at least N    *)
(* for the key's student.                                                  *)
(***************************************************************************)
C7_FlagSetAtItsTier ==
    [][\A k \in Keys : \A t \in Tiers :
          (~FlagSet(alerts, k, t) /\ FlagSet(alerts', k, t))
             => /\ IsSendRun(last')
                /\ \E i \in DOMAIN last'.out.rows :
                      /\ RunKey(last', i) = k
                      /\ last'.out.rows[i].percent >= t * 100]_vars

\* A run at a percent from 7 to below 15 has just created the row with the
\* 7 % flag set and the 15 % flag empty.
C7_Witness ==
    /\ IsSendRun(last)
    /\ \E i \in DOMAIN last.out.rows :
          LET k == RunKey(last, i)
          IN  /\ last.out.rows[i].percent >= 700
              /\ last.out.rows[i].percent < 1500
              /\ CountOf(alerts, k) = 1
              /\ AlertOf(alerts, k).sent7 = "yes"
              /\ AlertOf(alerts, k).sent15 = ""

(***************************************************************************)
(* C8.  An upload that carries a readable file whose header is not the     *)
(* Students schema, name for name and in order, is answered "Invalid       *)
(* header" and leaves the Students table as it was.                        *)
(***************************************************************************)
C8_BadHeaderRejected ==
    [][(/\ last'.op = "upload"
        /\ last'.req.present
        /\ last'.req.decodable
        /\ last'.req.header # Required)
          => /\ students' = students
             /\ last'.msg = "Invalid header"]_vars

\* A roster is in place and an upload of other rows under a wrong header
\* has just been refused.
C8_Witness ==
    /\ last.op = "upload"
    /\ last.msg = "Invalid header"
    /\ last.req.header # Required
    /\ students # <<>>
    /\ last.req.rows # <<>>
    /\ students # last.req.rows

\* The student_id the handler looks up: the form's, stripped.
FormStudentId(form) == Strip(FormGet(form, "student_id", ""))

(***************************************************************************)
(* C9.  An absence form whose student_id is in no row of the Students      *)
(* table is answered "Student not found" and the attendance log stays as   *)
(* it was.                                                                 *)
(***************************************************************************)
C9_UnknownStudentRejected ==
    [][(/\ last'.op = "record"
        /\ \A i \in DOMAIN students :
              students[i].student_id # FormStudentId(last'.req))
          => /\ attendance' = attendance
             /\ last'.msg = "Student not found"]_vars

\* A roster and a non-empty log are in place and a form for a student_id
\* the roster does not have has just been refused.
C9_Witness ==
    /\ last.op = "record"
    /\ last.msg = "Student not found"
    /\ students # <<>>
    /\ attendance # <<>>
    /\ \A i \in DOMAIN students :
          students[i].student_id # FormStudentId(last.req)

(***************************************************************************)
(* C10.  An absence form in which course_code, group, week, class_label,   *)
(* hours or date is empty or not sent is refused and the attendance log    *)
(* stays as it was.                                                        *)
(***************************************************************************)
C10_MissingFieldRejected ==
    [][(/\ last'.op = "record"
        /\ \E f \in FormFields \ {"student_id"} :
              last'.req[f] \in {"", None})
          => /\ attendance' = attendance
             /\ last'.msg # "Absence recorded"]_vars

\* seq is a prefix of longer.
IsPrefix(seq, longer) ==
    /\ Len(seq) <= Len(longer)
    /\ \A i \in DOMAIN seq : longer[i] = seq[i]

(***************************************************************************)
(* C11.  Over every step the attendance log keeps its events in place:     *)
(* the log before the step is a prefix of the log after it.  An accepted   *)
(* absence form adds exactly one event at the end; every other request     *)
(* leaves the log as it was.                                               *)
(***************************************************************************)
C11_LogAppendOnly ==
    [][/\ IsPrefix(attendance, attendance')
       /\ IF last'.op = "record" /\ last'.msg = "Absence recorded"
          THEN Len(attendance') = Len(attendance) + 1
          ELSE attendance' = attendance]_vars

\* A second absence has just been recorded after the first.
C11_Witness ==
    /\ last.op = "record"
    /\ last.msg = "Absence recorded"
    /\ Len(attendance) = 2

(***************************************************************************)
(* C12.  Every event in the attendance log has hours of at least 0, and    *)
(* the percent computed from the log for a positive total_hours is never   *)
(* negative.                                                               *)
(***************************************************************************)
C12_HoursNonNegative ==
    /\ \A i \in DOMAIN attendance : FloatOf(attendance[i].hours) >= 0
    /\ \A c \in Courses : \A g \in Groups :
          LET rows == ComputePercentages(students, attendance, c, g, "40")
          IN  \A j \in DOMAIN rows :
                 rows[j].hours_missed >= 0 /\ rows[j].percent >= 0

\* The indices of the Students rows enrolled in a course and group.
EnrolledIdx(studs, c, g) ==
    {i \in DOMAIN studs : studs[i].course_code = c /\ studs[i].group = g}

\* The j-th smallest element of a set of numbers.
NthOf(E, j) == CHOOSE i \in E : Cardinality({x \in E : x < i}) = j - 1

\* The log holds an event of the student in the course and group.
HasEvent(att, sid, c, g) ==
    \E i \in DOMAIN att :
        /\ att[i].student_id = sid
        /\ att[i].course_code = c
        /\ att[i].group = g

(***************************************************************************)
(* C13.  For every course, group and numeric total_hours,                  *)
(* compute_percentages returns exactly one row per Students row enrolled   *)
(* there, in roster order; the row of a student without an event there     *)
(* has 0 hours missed, percent 0.0 and no tier; and no row stands for a    *)
(* student_id that is not enrolled there, whatever the log holds.          *)
(***************************************************************************)
C13_RowsFollowEnrollment ==
    \A c \in Courses : \A g \in Groups : \A t \in TotalHoursTexts :
        LET rows == ComputePercentages(students, attendance, c, g, t)
            E == EnrolledIdx(students, c, g)
        IN  /\ Len(rows) = Cardinality(E)
            /\ \A j \in DOMAIN rows :
                  LET s == students[NthOf(E, j)]
                  IN  /\ rows[j].student_id = s.student_id
                      /\ rows[j].name = s.name
                      /\ ~HasEvent(attendance, s.student_id, c, g)
                            => /\ rows[j].hours_missed = 0
                               /\ rows[j].percent = 0
                               /\ rows[j].thresholds = {}

\* The report for C1/G1 has just been computed with one row, for an
\* enrolled student without an event there, while the log holds an event
\* in C1/G1 of a student who is not enrolled there.
C13_Witness ==
    /\ last.op = "report"
    /\ last.out.computed
    /\ Len(last.out.rows) = 1
    /\ ~HasEvent(attendance, last.out.rows[1].student_id, "C1", "G1")
    /\ \E i \in DOMAIN attendance :
          /\ attendance[i].course_code = "C1"
          /\ attendance[i].group = "G1"
          /\ \A j \in EnrolledIdx(students, "C1", "G1") :
                students[j].student_id # attendance[i].student_id

(***************************************************************************)
(* C14.  After a send-alerts run reconciled a key at computed percent p    *)
(* (a channel succeeded for its student), the key's row has the flag of    *)
(* every tier N with p >= N set; and when the key had no row before the    *)
(* run, the flags of those tiers are "yes" and the others are empty.       *)
(***************************************************************************)
C14_FlagsOfTiersHit ==
    [][IsSendRun(last') =>
          \A i \in DOMAIN last'.out.rows :
             LET k == RunKey(last', i)
                 p == last'.out.rows[i].percent
             IN  Delivered(last', i) =>
                    /\ HasAlert(alerts', k)
                    /\ \A t \in Tiers :
                          p >= t * 100 => Flag(AlertOf(alerts', k), t) = "yes"
                    /\ ~HasAlert(alerts, k) =>
                          \A t \in Tiers :
                             Flag(AlertOf(alerts', k), t)
                                = IF p >= t * 100 THEN "yes" ELSE ""]_vars

\* A second run has just reconciled a row at exactly 15 %: its count is 2
\* and the three flags are set.
C14_Witness ==
    /\ IsSendRun(last)
    /\ \E i \in DOMAIN last.out.rows :
          LET k == RunKey(last, i)
          IN  /\ last.out.rows[i].percent = 1500
              /\ Delivered(last, i)
              /\ CountOf(alerts, k) = 2
              /\ \A t \in Tiers : Flag(AlertOf(alerts, k), t) = "yes"

(***************************************************************************)
(* C18.  With one request running at a time and the table empty at the     *)
(* start, the AlertState table never holds two rows of the same key        *)
(* (student_id, course_code, group), and every step leaves each row at     *)
(* its position with its key: a row is updated in place and never removed. *)
(***************************************************************************)
C18_OneRecordPerKey ==
    /\ [](\A i \in DOMAIN alerts : \A j \in DOMAIN alerts :
             KeyOf(alerts[i]) = KeyOf(alerts[j]) => i = j)
    /\ [][\A i \in DOMAIN alerts :
             /\ i \in DOMAIN alerts'
             /\ KeyOf(alerts'[i]) = KeyOf(alerts[i])]_vars

\* A run over a roster that lists the student twice in the course has just
\* reconciled the key twice, and the table holds the single row of the key.
C18_Witness ==
    /\ IsSendRun(last)
    /\ Len(last.out.rows) = 2
    /\ RunKey(last, 1) = RunKey(last, 2)
    /\ Len(alerts) = 1
    /\ KeyOf(alerts[1]) = RunKey(last, 1)
    /\ alerts[1].count = 2

(***************************************************************************)
(* C19.  In every reachable state of the serialized model, every           *)
(* AlertState row with sent15 set has sent10 set, and every row with       *)
(* sent10 set has sent7 set, whatever the order of rising and falling      *)
(* percents of the runs that reconciled it.                                *)
(***************************************************************************)
C19_FlagsNested ==
    \A i \in DOMAIN alerts :
        /\ alerts[i].sent15 = "yes" => alerts[i].sent10 = "yes"
        /\ alerts[i].sent10 = "yes" => alerts[i].sent7 = "yes"

\* A row reconciled twice, last at a percent below 7, that keeps the 7 %
\* and 10 % flags of its first run and has the 15 % flag empty.
C19_Witness ==
    \E i \in DOMAIN alerts :
        /\ alerts[i].count = 2
        /\ alerts[i].percent < 700
        /\ alerts[i].sent7 = "yes"
        /\ alerts[i].sent10 = "yes"
        /\ alerts[i].sent15 = ""

\* The rows of a key, in table order.
RowsOf(al, k) ==
    LET OfKey(r) == KeyOf(r) = k
    IN  SelectSeq(al, OfKey)

(***************************************************************************)
(* C20.  A send-alerts request for (course, group, selected) leaves the    *)
(* Students table and the attendance log as they were, and leaves as it    *)
(* was every AlertState row except those of a key (s, course, group)       *)
(* whose student s is selected, enrolled in the course and group, and had  *)
(* a channel report success.                                               *)
(***************************************************************************)
C20_SendAlertsFrame ==
    [][last'.op = "send" =>
          /\ students' = students
          /\ attendance' = attendance
          /\ \A k \in Keys :
                LET touched ==
                       /\ k[2] = last'.req.course_code
                       /\ k[3] = last'.req.group
                       /\ k[1] \in last'.req.selected
                       /\ \E i \in DOMAIN last'.out.rows :
                             /\ last'.out.rows[i].student_id = k[1]
                             /\ Delivered(last', i)
                IN  ~touched => RowsOf(alerts', k) = RowsOf(alerts, k)]_vars

\* A run for S1 alone has just reconciled S1's row while the table holds
\* the row of S2, not selected, in the same course and group.
C20_Witness ==
    /\ IsSendRun(last)
    /\ last.req.selected = {"S1"}
    /\ Len(last.out.rows) = 1
    /\ Delivered(last, 1)
    /\ HasAlert(alerts, <<"S1", last.req.course_code, last.req.group>>)
    /\ HasAlert(alerts, <<"S2", last.req.course_code, last.req.group>>)

\* The invocation has run to its end and called upsert_alert for key k.
Reconciled(f, k) ==
    /\ f.pc = "done"
    /\ k[2] = f.course_code
    /\ k[3] = f.group
    /\ \E i \in DOMAIN f.target :
          /\ f.target[i].student_id = k[1]
          /\ Processed(f.ok_emails[i], SendSmsStub)

(***************************************************************************)
(* C15.  When two send-alerts invocations interleave at the load and the   *)
(* save of upsert_alert, the last writer wins: the count of a key never    *)
(* exceeds the number of upsert_alert calls made for it, and once both     *)
(* invocations have reconciled the same key its count has grown by at      *)
(* least 1 -- and by only 1 in the state of C15_Witness, where one of the  *)
(* two reconciliations is lost.                                            *)
(***************************************************************************)
C15_LastWriterWins ==
    \A k \in Keys :
        /\ CountOf(alerts, k) <= recon[k]
        /\ (Reconciled(inflight[1], k) /\ Reconciled(inflight[2], k))
              => CountOf(alerts, k) >= 1

\* Both invocations have reconciled the same key, upsert_alert was called
\* twice for it, and its count, 0 at the start, is 1.
C15_Witness ==
    \E k \in Keys :
        /\ Reconciled(inflight[1], k)
        /\ Reconciled(inflight[2], k)
        /\ recon[k] = 2
        /\ CountOf(alerts, k) = 1

\* The table after the whole loop of invocation f, run alone on table al.
RunAlone(al, f) ==
    SendLoop(al, f.target, f.ok_emails, f.course_code, f.group)

(***************************************************************************)
(* C17.  When two send-alerts invocations for different (course_code,      *)
(* group) pairs have both run to their end, under any interleaving of      *)
(* their loads and saves, every key has the rows it has when the two run   *)
(* one after the other from the empty table they started with.             *)
(***************************************************************************)
C17_OtherKeysUntouched ==
    (/\ inflight[1].pc = "done"
     /\ inflight[2].pc = "done"
     /\ <<inflight[1].course_code, inflight[1].group>>
           # <<inflight[2].course_code, inflight[2].group>>)
       => \A k \in Keys :
             RowsOf(alerts, k)
                = RowsOf(RunAlone(RunAlone(<<>>, inflight[1]), inflight[2]), k)

(***************************************************************************)
(* C16.  After a send-alerts invocation has died at any of its steps,      *)
(* every key that had a row when the invocation began still has one, with  *)
(* a count that is not lower and with every flag that was set still set.   *)
(***************************************************************************)
C16_CrashSafe ==
    \A p \in Procs :
        inflight[p].pc = "crashed" =>
            \A i \in DOMAIN inflight[p].before :
                LET old == inflight[p].before[i]
                    k == KeyOf(old)
                IN  /\ HasAlert(alerts, k)
                    /\ AlertOf(alerts, k).count >= old.count
                    /\ \A t \in Tiers :
                          Flag(old, t) = "yes"
                             => Flag(AlertOf(alerts, k), t) = "yes"

====
